---- MODULE Spec2Model ----
(***************************************************************************)
(* Model of eventfetcher/event_retriever.py: the Event decoder, the        *)
(* paginated transaction query, the wasm attribute parser and filter, and  *)
(* the processed-events store of EventRetriever.fetch_events.              *)
(***************************************************************************)
EXTENDS Integers, Sequences, FiniteSets, TLC

(***************************************************************************)
(* Bounds of the model.                                                    *)
(***************************************************************************)
MaxRemote == 2      \* transactions the node holds, at most
MaxPage == 2        \* records the node serves per page, at most
MaxCalls == 2       \* requests after which the node stops answering with empty pages
MaxTotal == 4       \* records of the node in the pagination specification
ExampleTotal == 250 \* the worked pagination example: records of the node
ExamplePage == 100  \* the worked pagination example: records per page
MaxAttrs == 3       \* attributes of a wasm event in the parser specification, before its id
MaxIdLen == 3       \* characters of an id in the parser specification

(***************************************************************************)
(* Python values.  None is a value outside every attribute alphabet.       *)
(***************************************************************************)
None == "None"

ActionType == {"refund", "transfer", "partial_transfer", "create"}

\* The alphabet of the ids the parser specification enumerates: two
\* letters, the slash, a digit and a hyphen.
IdAlphabet == {"A", "x", "/", "1", "-"}

\* Every character sequence over the alphabet, up to MaxIdLen characters.
IdSeqs == UNION {[1..n -> IdAlphabet] : n \in 0..MaxIdLen}

RECURSIVE Str(_)
\* The str made of a sequence of characters.
Str(cs) == IF cs = <<>> THEN "" ELSE Head(cs) \o Str(Tail(cs))

\* The characters of an id string (a str is a sequence of characters; TLA+
\* strings are atoms, so the ids of the catalogue are tabulated and the
\* enumerated ones are looked up by what they are made of).
Chars(s) ==
  CASE s = "AB/C-1" -> <<"A", "B", "/", "C", "-", "1">>
    [] s = "xy-2"   -> <<"x", "y", "-", "2">>
    [] s = "1AB"    -> <<"1", "A", "B">>
    [] s = ""       -> <<>>
    [] OTHER        -> IF \E cs \in IdSeqs : Str(cs) = s
                       THEN CHOOSE cs \in IdSeqs : Str(cs) = s
                       ELSE <<"?">>

Letters == {"A", "B", "C", "x", "y"}

\* The characters of the class [A-Za-z/].
PairChars == Letters \cup {"/"}

\* A faulty variant: the match is not greedy, it stops after one character.
LeadingRun_First(cs) ==
  IF cs = <<>> \/ Head(cs) \notin PairChars THEN <<>> ELSE <<Head(cs)>>

RECURSIVE LeadingRun(_)
\* The greedy match of ([A-Za-z/]+) at the start of a character sequence.
LeadingRun(cs) ==
  IF cs = <<>> \/ Head(cs) \notin PairChars
  THEN <<>>
  ELSE <<Head(cs)>> \o LeadingRun(Tail(cs))

\* Event.extract_trade_pair: re.match(...).group(1).  re.match(pattern, None)
\* raises TypeError; a failed match returns None and .group raises
\* AttributeError.
extract_trade_pair(id) ==
  IF id = None
  THEN [raised |-> "TypeError", trade_pair |-> <<>>]
  ELSE IF LeadingRun(Chars(id)) = <<>>
       THEN [raised |-> "AttributeError", trade_pair |-> <<>>]
       ELSE [raised |-> "no", trade_pair |-> LeadingRun(Chars(id))]

\* dict.get(key): None when the key is missing.
Get(d, key) == IF key \in DOMAIN d THEN d[key] ELSE None

\* Python's `a or b` on Optional[str]: b when a is None or empty.
PyOr(a, b) == IF a = None \/ a = "" THEN b ELSE a

\* Event.from_dict, the fields read from the bag.
from_dict(d) ==
  LET id == PyOr(Get(d, "id"), Get(d, "id1"))
      tp == extract_trade_pair(id)
  IN [raised |-> tp.raised,
      event |-> [id |-> id,
                 txn_hash |-> d["TxnHash"],
                 action |-> PyOr(Get(d, "action"), Get(d, "action1")),
                 from_address |-> PyOr(Get(d, "from"), Get(d, "from1")),
                 to_address |-> PyOr(Get(d, "to"), Get(d, "to1")),
                 amount |-> PyOr(Get(d, "amount"), Get(d, "amount1")),
                 trade_pair |-> tp.trade_pair,
                 sell_price |-> PyOr(Get(d, "sell_price"), Get(d, "sell_price1")),
                 escrow_address |-> Get(d, "escrow_contract_address"),
                 remaining_amount |->
                   PyOr(Get(d, "remaining_amount"), Get(d, "remaining_amount1")),
                 preferred_agent |->
                   PyOr(Get(d, "preferred_agent"), Get(d, "preferred_agent1")),
                 match_others |->
                   PyOr(Get(d, "match_others"), Get(d, "match_others1"))]]

(***************************************************************************)
(* The log parser and the filter of EventRetriever._filter_events.  A raw  *)
(* transaction is [txhash, logs]; a log is a sequence of events; an event  *)
(* is [type, attributes], attributes a sequence of <<key, value>>.         *)
(***************************************************************************)
RECURSIVE ScanPairs(_, _)
\* The loop over the key/value pairs of one wasm event, building `result`.
\* result.get(key, 0) + 1 raises TypeError when the key is already in the
\* bag (str + int).
ScanPairs(pairs, result) ==
  IF pairs = <<>>
  THEN [raised |-> "no", result |-> result]
  ELSE LET key == Head(pairs)[1]
           value == Head(pairs)[2]
       IN IF key = "_contract_address"
          THEN LET contract_count == Cardinality(DOMAIN result) - 1
                   k == IF contract_count = 0
                        THEN "cw20_contract_address"
                        ELSE "escrow_contract_address"
               IN ScanPairs(Tail(pairs), (k :> value) @@ result)
          ELSE IF key \in DOMAIN result
               THEN [raised |-> "TypeError", result |-> result]
               ELSE LET key_count == 0 + 1
                        k == key \o ToString(key_count)
                    IN ScanPairs(Tail(pairs), (k :> value) @@ result)

\* The attribute bag of one wasm event of the transaction txhash.
BuildBag(txhash, attributes) == ScanPairs(attributes, "TxnHash" :> txhash)

\* action_types: a single ActionType is wrapped, a list is taken as it is,
\* None leaves the list empty.
action_types(action_type) ==
  IF action_type.kind = "single" \/ action_type.kind = "list"
  THEN action_type.vals
  ELSE <<>>

\* A faulty variant: an empty list of kinds is not let through.
ActionExcluded_NoEmptyCheck(result, action_type) ==
  /\ action_type.kind # "none"
  /\ \A i \in 1..Len(action_types(action_type)) :
        /\ Get(result, "action") # action_types(action_type)[i]
        /\ Get(result, "action1") # action_types(action_type)[i]

\* The first `continue`: an action filter is given, it is not empty, and no
\* requested kind equals the bag's action or action1.
ActionExcluded(result, action_type) ==
  /\ action_type.kind # "none"
  /\ action_types(action_type) # <<>>
  /\ \A i \in 1..Len(action_types(action_type)) :
        /\ Get(result, "action") # action_types(action_type)[i]
        /\ Get(result, "action1") # action_types(action_type)[i]

\* The second `continue`: a wallet is given and neither from nor from1 is it.
WalletExcluded(result, user_wallet_address) ==
  /\ user_wallet_address # None
  /\ Get(result, "from") # user_wallet_address
  /\ Get(result, "from1") # user_wallet_address

RECURSIVE Flatten(_)
Flatten(ss) == IF ss = <<>> THEN <<>> ELSE Head(ss) \o Flatten(Tail(ss))

\* The wasm events of a response in the order the three nested loops visit
\* them, each with the hash of its transaction.
WasmEvents(resp) ==
  Flatten([i \in 1..Len(resp) |->
    LET evs == Flatten(resp[i].logs)
        wasm == SelectSeq(evs, LAMBDA e : e.type = "wasm")
    IN [j \in 1..Len(wasm) |->
          [txhash |-> resp[i].txhash, attributes |-> wasm[j].attributes]]])

RECURSIVE FilterLoop(_, _, _, _)
\* The body of the loops for each wasm event in turn: build the bag, apply
\* the two filters, decode and append.  The first exception ends the call.
FilterLoop(items, action_type, user_wallet_address, filtered_data) ==
  IF items = <<>>
  THEN [raised |-> "no", events |-> filtered_data]
  ELSE LET b == BuildBag(Head(items).txhash, Head(items).attributes)
           d == from_dict(b.result)
       IN IF b.raised # "no"
          THEN [raised |-> b.raised, events |-> <<>>]
          ELSE IF \/ ActionExcluded(b.result, action_type)
                  \/ WalletExcluded(b.result, user_wallet_address)
               THEN FilterLoop(Tail(items), action_type, user_wallet_address,
                               filtered_data)
               ELSE IF d.raised # "no"
                    THEN [raised |-> d.raised, events |-> <<>>]
                    ELSE FilterLoop(Tail(items), action_type,
                                    user_wallet_address,
                                    Append(filtered_data, d.event))

\* EventRetriever._filter_events.
filter_events(resp, action_type, user_wallet_address) ==
  FilterLoop(WasmEvents(resp), action_type, user_wallet_address, <<>>)

(***************************************************************************)
(* The transactions the node may hold.                                     *)
(***************************************************************************)
Attr(k, v) == <<k, v>>

\* A cw20 send into the escrow: one wasm event, well-formed id.
TxTransfer ==
  [txhash |-> "h1",
   logs |-> << << [type |-> "message", attributes |-> <<Attr("action", "execute")>>],
                  [type |-> "wasm",
                   attributes |-> <<Attr("_contract_address", "cw20"),
                                    Attr("action", "transfer"),
                                    Attr("from", "W1"),
                                    Attr("to", "W2"),
                                    Attr("amount", "10"),
                                    Attr("_contract_address", "escrow"),
                                    Attr("id", "AB/C-1"),
                                    Attr("sell_price", "5")>>] >> >>]

\* An order creation by another wallet.
TxCreate ==
  [txhash |-> "h2",
   logs |-> << << [type |-> "wasm",
                   attributes |-> <<Attr("_contract_address", "cw20"),
                                    Attr("action", "create"),
                                    Attr("from", "W2"),
                                    Attr("id", "xy-2")>>] >> >>]

\* A transaction with two malformed wasm events: one with no attributes at
\* all, one whose id begins with a digit.
TxMalformed ==
  [txhash |-> "h3",
   logs |-> << << [type |-> "wasm", attributes |-> <<>>],
                  [type |-> "wasm",
                   attributes |-> <<Attr("_contract_address", "cw20"),
                                    Attr("action", "transfer"),
                                    Attr("from", "W1"),
                                    Attr("id", "1AB")>>] >> >>]

TxCatalogue == {TxTransfer, TxCreate, TxMalformed}

\* The filters a caller passes.
NoFilter == [kind |-> "none", vals |-> <<>>]
Single(a) == [kind |-> "single", vals |-> <<a>>]
List(as) == [kind |-> "list", vals |-> as]

ActionFilters ==
  {NoFilter, Single("transfer"), List(<<>>), List(<<"create", "refund">>)}

WalletFilters == {None, "W1"}

(***************************************************************************)
(* State.  Spec is the retriever against a node that serves one record per *)
(* page; PageSpec varies the page size.                                    *)
(***************************************************************************)
VARIABLES
  file,               \* the processed-events file: absent, truncated, or a JSON array
  processed_events,   \* self.processed_events
  pc,                 \* where fetch_events stands: idle, query, filter, open, dump
  discard_processed_events, action_type, user_wallet_address,  \* the arguments
  offset, res,        \* locals of _query_txs_events
  total,              \* tx_res.pagination.total of the last response
  calls,              \* history: offset and record count of each request of the loop
  filtered_data,      \* what _filter_events returned
  events_to_send,     \* the local of fetch_events
  outcome,            \* how the last call ended, as its caller sees it
  remote,             \* the transactions the node holds
  pageSize,           \* records the node serves per page
  fileAtLoad,         \* history: the file when the call began
  loaded,             \* history: processed_events right after load_processed_events
  prev,               \* history: the call before, if it began with no history
  delivered,          \* history: hashes returned by dedup passes on this store
  result,             \* the local of _filter_events: the bag of the wasm event scanned last
  peer                \* a second retriever on the same file (ConcSpec)

vars == <<file, processed_events, pc, discard_processed_events, action_type,
          user_wallet_address, offset, res, total, calls, filtered_data,
          events_to_send, outcome, remote, pageSize, fileAtLoad, loaded, prev,
          delivered, result, peer>>

Absent == [kind |-> "absent", hashes |-> {}]
\* What open(path, "w") leaves before anything is written: an empty file,
\* which json.load rejects.
Truncated == [kind |-> "corrupt", hashes |-> {}]
JsonArray(hs) == [kind |-> "ok", hashes |-> hs]

NoOutcome == [status |-> "none", error |-> "no", events |-> <<>>]
Returned(evs) == [status |-> "returned", error |-> "no", events |-> evs]
Raised(err) == [status |-> "raised", error |-> err, events |-> <<>>]

NoCall ==
  [status |-> "none", action_type |-> NoFilter, wallet |-> None,
   events |-> <<>>]

\* No wasm event has been scanned.
NoBag == [k \in {} |-> None]

\* A second retriever as its constructor leaves it; serial tells whether the
\* callers of the two retrievers take turns.
NoPeer ==
  [serial |-> TRUE, pc |-> "idle", processed_events |-> {},
   action_type |-> NoFilter, user_wallet_address |-> None, offset |-> 0,
   res |-> <<>>, events_to_send |-> <<>>, delivered |-> {}]

Hashes(evs) == {evs[i].txn_hash : i \in 1..Len(evs)}

Min(a, b) == IF a < b THEN a ELSE b

(***************************************************************************)
(* The steps of the code as operators.                                     *)
(***************************************************************************)
\* A faulty variant: the file is never read.
load_processed_events_NeverReads(discard, f, held) ==
  [raised |-> "no", processed_events |-> held]

\* EventRetriever.load_processed_events: the set the retriever holds after it.
\* Only FileNotFoundError is caught; json.load of a truncated file raises
\* json.JSONDecodeError, which propagates.
load_processed_events(discard, f, held) ==
  IF discard
  THEN CASE f.kind = "ok" -> [raised |-> "no", processed_events |-> f.hashes]
         [] f.kind = "absent" -> [raised |-> "no", processed_events |-> held]
         [] OTHER -> [raised |-> "JSONDecodeError", processed_events |-> held]
  ELSE [raised |-> "no", processed_events |-> held]

\* The node's answer to GetTxsEvent at an offset: the next n records.
ServerPage(data, off, n) == SubSeq(data, off + 1, Min(off + n, Len(data)))

\* A faulty variant: the offset counts requests, not records.
NextOffset_CountsRequests(off, page) == off + 1

\* offset += len(tx_res.tx_responses)
NextOffset(off, page) == off + Len(page)

\* A faulty variant: the loop asks once more when the total is just reached.
LoopDone_Strict(off, tot) == off > tot

\* if offset >= tx_res.pagination.total: break
LoopDone(off, tot) == off >= tot

RECURSIVE Unseen(_, _)
\* The events whose hash is not in `seen`, each hash once.
Unseen(evs, seen) ==
  IF evs = <<>>
  THEN <<>>
  ELSE IF Head(evs).txn_hash \in seen
       THEN Unseen(Tail(evs), seen)
       ELSE <<Head(evs)>> \o Unseen(Tail(evs), seen \cup {Head(evs).txn_hash})

\* A faulty variant: a hash is also excluded once the pass has selected it.
NotProcessed_OncePerHash(evs, held) == Unseen(evs, held)

\* A faulty variant: the comprehension without its condition.
NotProcessed_KeepsAll(evs, held) == evs

\* The comprehension of fetch_events: events whose hash is not processed.
NotProcessed(evs, held) == SelectSeq(evs, LAMBDA e : e.txn_hash \notin held)

\* A faulty variant: the set is replaced by the new hashes, not updated.
UpdateProcessed_Replaces(held, evs) == Hashes(evs)

\* self.processed_events.update(event.txn_hash for event in events_to_send)
UpdateProcessed(held, evs) == held \cup Hashes(evs)

\* json.dump(list(self.processed_events), f): the array written.
Dumped(held) == JsonArray(held)

\* Whether a call began with no history: no file or an empty array, and
\* nothing held in memory.
FromEmpty(f, held) ==
  /\ f.kind = "absent" \/ f = JsonArray({})
  /\ held = {}

\* The record kept of a finished call for the call after it: a dedup call
\* that returned and had begun with no history.
Capture ==
  IF /\ outcome.status = "returned"
     /\ discard_processed_events
     /\ FromEmpty(fileAtLoad, loaded)
  THEN [status |-> "returned", action_type |-> action_type,
        wallet |-> user_wallet_address, events |-> outcome.events]
  ELSE NoCall

\* fetch_events of a dedup flag ends: a return or an exception reaches the
\* caller.
CompleteCall(out, discard) ==
  /\ pc' = "idle"
  /\ outcome' = out
  /\ delivered' = IF out.status = "returned" /\ discard
                  THEN delivered \cup Hashes(out.events)
                  ELSE delivered

Complete(out) == CompleteCall(out, discard_processed_events)

\* The arguments, locals and result of a call are gone.
Forget ==
  /\ discard_processed_events' = FALSE
  /\ action_type' = NoFilter
  /\ user_wallet_address' = None
  /\ offset' = 0
  /\ res' = <<>>
  /\ total' = 0
  /\ calls' = <<>>
  /\ filtered_data' = <<>>
  /\ events_to_send' = <<>>
  /\ outcome' = NoOutcome
  /\ fileAtLoad' = Absent
  /\ loaded' = {}

(***************************************************************************)
(* Actions.                                                                *)
(***************************************************************************)
Init ==
  /\ file = Absent
  /\ processed_events = {}
  /\ pc = "idle"
  /\ discard_processed_events = FALSE
  /\ action_type = NoFilter
  /\ user_wallet_address = None
  /\ offset = 0
  /\ res = <<>>
  /\ total = 0
  /\ calls = <<>>
  /\ filtered_data = <<>>
  /\ events_to_send = <<>>
  /\ outcome = NoOutcome
  /\ remote = <<>>
  /\ pageSize = 1    \* a node of two records takes two requests
  /\ fileAtLoad = Absent
  /\ loaded = {}
  /\ prev = NoCall
  /\ delivered = {}
  /\ result = NoBag
  /\ peer = NoPeer

\* fetch_events is called: load_processed_events, then the query loop starts
\* (offset = 0, res = []).
FetchEvents(discard, at, w) ==
  LET l == load_processed_events(discard, file, processed_events)
  IN /\ pc = "idle"
     /\ discard_processed_events' = discard
     /\ action_type' = at
     /\ user_wallet_address' = w
     /\ fileAtLoad' = file
     /\ processed_events' = l.processed_events
     /\ loaded' = l.processed_events
     /\ offset' = 0
     /\ res' = <<>>
     /\ total' = 0
     /\ calls' = <<>>
     /\ filtered_data' = <<>>
     /\ events_to_send' = <<>>
     /\ prev' = IF outcome.status # "none" THEN Capture ELSE prev
     /\ IF l.raised # "no"
        THEN CompleteCall(Raised(l.raised), discard)
        ELSE /\ pc' = "query"
             /\ outcome' = NoOutcome
             /\ UNCHANGED delivered
     /\ UNCHANGED <<result, peer, file, remote, pageSize>>

\* A faulty variant: the loop also ends on a response without records.
QueryStep_StopsOnEmpty(page, tot) ==
  /\ pc = "query"
  /\ calls' = Append(calls, [offset |-> offset, n |-> Len(page)])
  /\ res' = res \o page
  /\ offset' = NextOffset(offset, page)
  /\ total' = tot
  /\ pc' = IF page = <<>> \/ LoopDone(NextOffset(offset, page), tot)
           THEN "filter" ELSE "query"
  /\ UNCHANGED <<result, peer, file, processed_events,
                 discard_processed_events, action_type, user_wallet_address,
                 filtered_data, events_to_send, outcome, remote, pageSize,
                 fileAtLoad, loaded, prev, delivered>>

\* One iteration of the loop of _query_txs_events with the response
\* (page, tot).
QueryStep(page, tot) ==
  /\ pc = "query"
  /\ calls' = Append(calls, [offset |-> offset, n |-> Len(page)])
  /\ res' = res \o page
  /\ offset' = NextOffset(offset, page)
  /\ total' = tot
  /\ pc' = IF LoopDone(NextOffset(offset, page), tot) THEN "filter" ELSE "query"
  /\ UNCHANGED <<result, peer, file, processed_events,
                 discard_processed_events, action_type, user_wallet_address,
                 filtered_data, events_to_send, outcome, remote, pageSize,
                 fileAtLoad, loaded, prev, delivered>>

\* The node serves the next page.
GetTxsEvent ==
  /\ pc = "query"
  /\ QueryStep(ServerPage(remote, offset, pageSize), Len(remote))

\* The node answers with no records although records remain.
GetTxsEventEmpty ==
  /\ offset < Len(remote)
  /\ Len(calls) < MaxCalls
  /\ QueryStep(<<>>, Len(remote))

\* A faulty variant: the set in memory is written out before the error of
\* the remote call leaves fetch_events.
GetTxsEventFails_SavesFirst ==
  /\ pc = "query"
  /\ file' = JsonArray(processed_events)
  /\ pc' = "idle"
  /\ outcome' = Raised("RpcError")
  /\ UNCHANGED <<result, peer, processed_events, discard_processed_events,
                 action_type, user_wallet_address, offset, res, total, calls,
                 filtered_data, events_to_send, remote, pageSize, fileAtLoad,
                 loaded, prev, delivered>>

\* GetTxsEvent raises (grpc.RpcError); nothing in the call catches it.
GetTxsEventFails ==
  /\ pc = "query"
  /\ Complete(Raised("RpcError"))
  /\ UNCHANGED <<result, peer, file, processed_events,
                 discard_processed_events, action_type, user_wallet_address,
                 offset, res, total, calls, filtered_data, events_to_send,
                 remote, pageSize, fileAtLoad, loaded, prev>>

\* _filter_events, the comprehension and, with dedup, the update of the set
\* held in memory; without dedup the call returns here.
FilterAndSelect ==
  LET f == filter_events(res, action_type, user_wallet_address)
      send == NotProcessed(f.events, processed_events)
  IN /\ pc = "filter"
     /\ IF f.raised # "no"
        THEN /\ Complete(Raised(f.raised))
             /\ UNCHANGED <<filtered_data, events_to_send, processed_events>>
        ELSE /\ filtered_data' = f.events
             /\ events_to_send' = send
             /\ IF discard_processed_events
                THEN /\ processed_events' = UpdateProcessed(processed_events, send)
                     /\ pc' = "open"
                     /\ UNCHANGED <<outcome, delivered>>
                ELSE /\ Complete(Returned(send))
                     /\ UNCHANGED processed_events
     /\ UNCHANGED <<result, peer, file, discard_processed_events, action_type,
                    user_wallet_address, offset, res, total, calls, remote,
                    pageSize, fileAtLoad, loaded, prev>>

\* open(self.processed_events_file, "w") truncates the file.
OpenForWrite ==
  /\ pc = "open"
  /\ file' = Truncated
  /\ pc' = "dump"
  /\ UNCHANGED <<result, peer, processed_events, discard_processed_events,
                 action_type, user_wallet_address, offset, res, total, calls,
                 filtered_data, events_to_send, outcome, remote, pageSize,
                 fileAtLoad, loaded, prev, delivered>>

\* open(..., "w") raises OSError; the file is as it was.
OpenFails ==
  /\ pc = "open"
  /\ Complete(Raised("OSError"))
  /\ UNCHANGED <<result, peer, file, processed_events,
                 discard_processed_events, action_type, user_wallet_address,
                 offset, res, total, calls, filtered_data, events_to_send,
                 remote, pageSize, fileAtLoad, loaded, prev>>

\* A faulty variant: only the hashes of this pass are written.
DumpAndReturn_WritesReturned ==
  /\ pc = "dump"
  /\ file' = JsonArray(Hashes(events_to_send))
  /\ Complete(Returned(events_to_send))
  /\ UNCHANGED <<result, peer, processed_events, discard_processed_events,
                 action_type, user_wallet_address, offset, res, total, calls,
                 filtered_data, events_to_send, remote, pageSize, fileAtLoad,
                 loaded, prev>>

\* json.dump(list(self.processed_events), f), the file closes, and
\* fetch_events returns events_to_send.
DumpAndReturn ==
  /\ pc = "dump"
  /\ file' = Dumped(processed_events)
  /\ Complete(Returned(events_to_send))
  /\ UNCHANGED <<result, peer, processed_events, discard_processed_events,
                 action_type, user_wallet_address, offset, res, total, calls,
                 filtered_data, events_to_send, remote, pageSize, fileAtLoad,
                 loaded, prev>>

\* The process stops (at any point of a call, or between calls) and a new
\* process constructs the retriever: __init__ sets processed_events = set().
Restart ==
  /\ processed_events' = {}
  /\ pc' = "idle"
  /\ prev' = IF pc = "idle" /\ outcome.status # "none" THEN Capture ELSE prev
  /\ Forget
  /\ UNCHANGED <<result, peer, file, remote, pageSize, delivered>>

\* Between calls, the chain grows by one transaction.
AppendTx(t) ==
  /\ pc = "idle"
  /\ Len(remote) < MaxRemote
  /\ remote' = Append(remote, t)
  /\ prev' = NoCall
  /\ Forget
  /\ UNCHANGED <<result, peer, file, processed_events, pc, pageSize,
                 delivered>>

\* Between calls, somebody deletes the processed-events file.
RemoveFile ==
  /\ pc = "idle"
  /\ file.kind # "absent"
  /\ file' = Absent
  /\ prev' = NoCall
  /\ delivered' = {}
  /\ Forget
  /\ UNCHANGED <<result, peer, processed_events, pc, remote, pageSize>>

Next ==
  \/ \E d \in BOOLEAN, at \in ActionFilters, w \in WalletFilters :
       FetchEvents(d, at, w)
  \/ GetTxsEvent
  \/ GetTxsEventEmpty
  \/ GetTxsEventFails
  \/ FilterAndSelect
  \/ OpenForWrite
  \/ OpenFails
  \/ DumpAndReturn
  \/ Restart
  \/ \E t \in TxCatalogue : AppendTx(t)
  \/ RemoveFile

Spec == Init /\ [][Next]_vars

(***************************************************************************)
(* The query loop alone, against nodes holding up to MaxTotal records (and *)
(* the worked example), records numbered in their order on the node.       *)
(***************************************************************************)
PageInit ==
  /\ file = Absent
  /\ processed_events = {}
  /\ pc = "idle"
  /\ discard_processed_events = FALSE
  /\ action_type = NoFilter
  /\ user_wallet_address = None
  /\ offset = 0
  /\ res = <<>>
  /\ total = 0
  /\ calls = <<>>
  /\ filtered_data = <<>>
  /\ events_to_send = <<>>
  /\ outcome = NoOutcome
  /\ \E cfg \in ((0..MaxTotal) \X (1..MaxPage))
                    \cup {<<ExampleTotal, ExamplePage>>} :
       /\ remote = [i \in 1..cfg[1] |-> i]
       /\ pageSize = cfg[2]
  /\ fileAtLoad = Absent
  /\ loaded = {}
  /\ prev = NoCall
  /\ delivered = {}
  /\ result = NoBag
  /\ peer = NoPeer

\* _query_txs_events is entered: offset = 0, res = [].
QueryTxsEvents ==
  /\ pc = "idle"
  /\ pc' = "query"
  /\ offset' = 0
  /\ res' = <<>>
  /\ total' = 0
  /\ calls' = <<>>
  /\ outcome' = NoOutcome
  /\ UNCHANGED <<result, peer, file, processed_events,
                 discard_processed_events, action_type, user_wallet_address,
                 filtered_data, events_to_send, remote, pageSize, fileAtLoad,
                 loaded, prev, delivered>>

\* _query_txs_events returns res to its caller.
QueryReturns ==
  /\ pc = "filter"
  /\ pc' = "idle"
  /\ UNCHANGED <<result, peer, file, processed_events,
                 discard_processed_events, action_type, user_wallet_address,
                 offset, res, total, calls, filtered_data, events_to_send,
                 outcome, remote, pageSize, fileAtLoad, loaded, prev,
                 delivered>>

PageNext ==
  \/ QueryTxsEvents
  \/ GetTxsEvent
  \/ GetTxsEventEmpty
  \/ GetTxsEventFails
  \/ QueryReturns

PageSpec == PageInit /\ [][PageNext]_vars

\* The query loop against a node that, asked again and again, does serve the
\* next page: the call blocks on GetTxsEvent and goes on as soon as it is
\* answered, and the node's empty answers (at most MaxCalls per call) are
\* followed by a real one.
PageFairSpec == PageInit /\ [][PageNext]_vars /\ WF_vars(GetTxsEvent)

(***************************************************************************)
(* _filter_events alone, on a response of one transaction with one wasm    *)
(* event: every attribute list of up to MaxAttrs contract-address, action  *)
(* and from entries followed by a well-formed id, under every filter; and  *)
(* every id over IdAlphabet of up to MaxIdLen characters, unfiltered.      *)
(***************************************************************************)
AttrPairs ==
  {Attr("_contract_address", "c1"), Attr("_contract_address", "c2"),
   Attr("action", "transfer"), Attr("action", "create"),
   Attr("from", "W1"), Attr("from", "W2")}

AttrLists == UNION {[1..n -> AttrPairs] : n \in 0..MaxAttrs}

\* A response of one transaction whose log holds one wasm event.
WasmTx(attributes) ==
  [txhash |-> "h1",
   logs |-> << << [type |-> "wasm", attributes |-> attributes] >> >>]

ParseInputs ==
  {[resp |-> <<WasmTx(Append(as, Attr("id", "AB/C-1")))>>,
    action_type |-> at, user_wallet_address |-> w] :
      as \in AttrLists, at \in ActionFilters, w \in WalletFilters}
  \cup
  {[resp |-> <<WasmTx(<<Attr("action", "transfer"), Attr("id", Str(cs))>>)>>,
    action_type |-> NoFilter, user_wallet_address |-> None] : cs \in IdSeqs}

ParseInit ==
  /\ file = Absent
  /\ processed_events = {}
  /\ pc = "filter"
  /\ discard_processed_events = FALSE
  /\ \E in \in ParseInputs :
       /\ res = in.resp
       /\ action_type = in.action_type
       /\ user_wallet_address = in.user_wallet_address
  /\ offset = 0
  /\ total = 0
  /\ calls = <<>>
  /\ filtered_data = <<>>
  /\ events_to_send = <<>>
  /\ outcome = NoOutcome
  /\ remote = <<>>
  /\ pageSize = 1
  /\ fileAtLoad = Absent
  /\ loaded = {}
  /\ prev = NoCall
  /\ delivered = {}
  /\ result = NoBag
  /\ peer = NoPeer

\* The bag `result` holds when _filter_events ends: that of the wasm event
\* scanned last.
LastBag(resp) ==
  IF WasmEvents(resp) = <<>>
  THEN NoBag
  ELSE LET last == WasmEvents(resp)[Len(WasmEvents(resp))]
       IN BuildBag(last.txhash, last.attributes).result

\* _filter_events runs on res and returns to its caller, or raises.
FilterEvents ==
  /\ pc = "filter"
  /\ LET f == filter_events(res, action_type, user_wallet_address)
     IN /\ filtered_data' = f.events
        /\ outcome' = IF f.raised = "no" THEN Returned(f.events)
                      ELSE Raised(f.raised)
  /\ result' = LastBag(res)
  /\ pc' = "idle"
  /\ UNCHANGED <<file, processed_events, discard_processed_events,
                 action_type, user_wallet_address, offset, res, total, calls,
                 events_to_send, remote, pageSize, fileAtLoad, loaded, prev,
                 delivered, peer>>

ParseNext == FilterEvents

ParseSpec == ParseInit /\ [][ParseNext]_vars

(***************************************************************************)
(* Two retrievers on the same processed-events file, each called with the  *)
(* dedup flag set, against a node that holds two transactions.  The first  *)
(* retriever is the one of Spec; the second is the record peer, and its    *)
(* steps are the same statements of fetch_events.  peer.serial tells       *)
(* whether the callers wait for the other retriever's call to end before   *)
(* they begin one.                                                         *)
(***************************************************************************)
ConcInit ==
  /\ file = Absent
  /\ processed_events = {}
  /\ pc = "idle"
  /\ discard_processed_events = FALSE
  /\ action_type = NoFilter
  /\ user_wallet_address = None
  /\ offset = 0
  /\ res = <<>>
  /\ total = 0
  /\ calls = <<>>
  /\ filtered_data = <<>>
  /\ events_to_send = <<>>
  /\ outcome = NoOutcome
  /\ remote = <<TxTransfer, TxCreate>>
  /\ pageSize = 1
  /\ fileAtLoad = Absent
  /\ loaded = {}
  /\ prev = NoCall
  /\ delivered = {}
  /\ result = NoBag
  /\ \E s \in BOOLEAN : peer = [NoPeer EXCEPT !.serial = s]

\* The action filters the callers of the two retrievers pass; neither
\* passes a wallet.
ConcFilters == {NoFilter, Single("transfer")}

\* The second retriever between calls: the arguments and locals of its last
\* call are gone.
PeerIdle(p) ==
  [p EXCEPT !.pc = "idle", !.action_type = NoFilter,
            !.user_wallet_address = None, !.offset = 0, !.res = <<>>,
            !.events_to_send = <<>>]

\* What the steps of the second retriever leave alone.
PeerFrame ==
  UNCHANGED <<processed_events, pc, discard_processed_events, action_type,
              user_wallet_address, offset, res, total, calls, filtered_data,
              events_to_send, outcome, remote, pageSize, fileAtLoad, loaded,
              prev, delivered, result>>

\* The first retriever's fetch_events(True, ...) is called.
ConcFetchEvents(at) ==
  /\ peer.serial => peer.pc = "idle"
  /\ FetchEvents(TRUE, at, None)

\* The second retriever's fetch_events(True, ...) is called:
\* load_processed_events, then its query loop starts.
PeerFetchEvents(at) ==
  LET l == load_processed_events(TRUE, file, peer.processed_events)
  IN /\ peer.pc = "idle"
     /\ peer.serial => pc = "idle"
     /\ peer' = IF l.raised # "no"
                THEN PeerIdle(peer)
                ELSE [peer EXCEPT !.pc = "query",
                                  !.processed_events = l.processed_events,
                                  !.action_type = at]
     /\ UNCHANGED file
     /\ PeerFrame

\* One iteration of the second retriever's query loop.
PeerGetTxsEvent ==
  LET page == ServerPage(remote, peer.offset, pageSize)
  IN /\ peer.pc = "query"
     /\ peer' = [peer EXCEPT !.res = @ \o page,
                             !.offset = NextOffset(@, page),
                             !.pc = IF LoopDone(NextOffset(peer.offset, page),
                                                Len(remote))
                                    THEN "filter" ELSE "query"]
     /\ UNCHANGED file
     /\ PeerFrame

\* The second retriever's _filter_events, comprehension and update of its
\* set in memory.
PeerFilterAndSelect ==
  LET f == filter_events(peer.res, peer.action_type, peer.user_wallet_address)
      send == NotProcessed(f.events, peer.processed_events)
  IN /\ peer.pc = "filter"
     /\ peer' = IF f.raised # "no"
                THEN PeerIdle(peer)
                ELSE [peer EXCEPT !.events_to_send = send,
                                  !.processed_events = UpdateProcessed(@, send),
                                  !.pc = "open"]
     /\ UNCHANGED file
     /\ PeerFrame

\* The second retriever's open(self.processed_events_file, "w").
PeerOpenForWrite ==
  /\ peer.pc = "open"
  /\ file' = Truncated
  /\ peer' = [peer EXCEPT !.pc = "dump"]
  /\ PeerFrame

\* The second retriever's json.dump and return.
PeerDumpAndReturn ==
  /\ peer.pc = "dump"
  /\ file' = Dumped(peer.processed_events)
  /\ peer' = PeerIdle([peer EXCEPT !.delivered =
                                      @ \cup Hashes(peer.events_to_send)])
  /\ PeerFrame

ConcNext ==
  \/ \E at \in ConcFilters : ConcFetchEvents(at)
  \/ GetTxsEvent
  \/ FilterAndSelect
  \/ OpenForWrite
  \/ DumpAndReturn
  \/ \E at \in ConcFilters : PeerFetchEvents(at)
  \/ PeerGetTxsEvent
  \/ PeerFilterAndSelect
  \/ PeerOpenForWrite
  \/ PeerDumpAndReturn

ConcSpec == ConcInit /\ [][ConcNext]_vars

(***************************************************************************)
(* Properties.                                                             *)
(***************************************************************************)
RECURSIVE Accumulated(_, _)
\* The records the first k requests of the loop brought.
Accumulated(cs, k) == IF k = 0 THEN 0 ELSE Accumulated(cs, k - 1) + cs[k].n

\* A call has returned and its result is still with the caller.
HasReturned == pc = "idle" /\ outcome.status = "returned"

\* _filter_events has returned in the running or the last call.
FilterDone == pc \in {"open", "dump"} \/ HasReturned

\* C1: on a retriever that holds no hashes and whose store file is empty or
\* absent, two consecutive dedup calls with the same filters and an unchanged
\* node return every matching event of the node the first time and nothing
\* the second time.
C1_DedupRoundTrip ==
  ( /\ HasReturned
    /\ discard_processed_events
    /\ prev.status = "returned"
    /\ prev.action_type = action_type
    /\ prev.wallet = user_wallet_address )
  => /\ prev.events =
          filter_events(remote, action_type, user_wallet_address).events
     /\ outcome.events = <<>>

C1_Witness ==
  /\ HasReturned
  /\ discard_processed_events
  /\ prev.status = "returned"
  /\ prev.action_type = action_type
  /\ prev.wallet = user_wallet_address
  /\ prev.events # <<>>
  /\ outcome.events = <<>>

\* C2: no event a dedup call is about to return, or has returned, carries a
\* hash that an earlier dedup call on the same store returned, nor a hash of
\* the set loaded when its call began.
C2_NoRedelivery ==
  /\ pc \in {"open", "dump"} =>
       /\ Hashes(events_to_send) \cap delivered = {}
       /\ Hashes(events_to_send) \cap loaded = {}
  /\ HasReturned =>
       /\ Hashes(outcome.events) \cap loaded = {}
       /\ discard_processed_events => outcome.events = events_to_send

C2_Witness ==
  /\ pc = "dump"
  /\ events_to_send # <<>>
  /\ Hashes(filtered_data) \cap delivered # {}

\* C3: a call that ended with the remote call's error returned no events,
\* whatever pages it had fetched, and the store file is as it was when the
\* call began.
C3_QueryFailedAllOrNothing ==
  outcome.error = "RpcError" =>
    /\ outcome.status = "raised"
    /\ outcome.events = <<>>
    /\ file = fileAtLoad

C3_Witness ==
  /\ outcome.error = "RpcError"
  /\ res # <<>>
  /\ Len(res) < Len(remote)
  /\ discard_processed_events
  /\ file.kind = "ok"
  /\ file.hashes # {}

\* C4: no call ends with the exception of a bag that cannot be decoded (no
\* id, or an id without a leading letter/slash run).
C4_MalformedNonFatal == outcome.error \notin {"TypeError", "AttributeError"}

\* C5: every request carries the number of records the earlier requests
\* brought; the result is the node's records in order, none dropped or
\* repeated; and a node of ExampleTotal records served ExamplePage at a time
\* is read in exactly three requests at 0, ExamplePage and 2 * ExamplePage.
C5_PaginationSequence ==
  /\ \A i \in 1..Len(calls) : calls[i].offset = Accumulated(calls, i - 1)
  /\ Len(res) = Accumulated(calls, Len(calls))
  /\ res = SubSeq(remote, 1, Len(res))
  /\ pc = "filter" => res = remote
  /\ ( /\ pc = "filter"
       /\ Len(remote) = ExampleTotal
       /\ pageSize = ExamplePage
       /\ \A i \in 1..Len(calls) : calls[i].n > 0 )
     => /\ [i \in 1..Len(calls) |-> calls[i].offset]
             = <<0, ExamplePage, 2 * ExamplePage>>
        /\ Len(res) = ExampleTotal

C5_Witness ==
  /\ pc = "filter"
  /\ Len(remote) = ExampleTotal
  /\ pageSize = ExamplePage
  /\ Len(calls) = 3
  /\ res = remote

\* C6: the loop goes on only while the accumulated count is below the
\* reported total and ends at the first response that brings it there, empty
\* or not; a node reporting total 0 with an empty page gets exactly one
\* request.
C6_StopAtTotal ==
  /\ (pc = "query" /\ calls # <<>>) => offset < total
  /\ pc = "filter" =>
       /\ offset >= total
       /\ \A i \in 1..(Len(calls) - 1) : calls[i].offset + calls[i].n < total
  /\ (pc = "filter" /\ total = 0) => (Len(calls) = 1 /\ res = <<>>)

C6_Witness ==
  /\ pc = "filter"
  /\ total = 0
  /\ Len(calls) = 1
  /\ calls[1].n = 0

\* C7: a call with dedup disabled returns everything _filter_events kept.
C7_DisabledExcludesNothing ==
  (HasReturned /\ ~discard_processed_events) => outcome.events = filtered_data

\* C8: a dedup call that found no store file runs with an empty set.
C8_MissingFileEmptySet ==
  ( /\ discard_processed_events
    /\ fileAtLoad.kind = "absent"
    /\ pc # "idle" \/ outcome.status # "none" )
  => loaded = {}

\* C9: no call ends with the read error of a store file that is not a JSON
\* array.
C9_CorruptAsMissing == outcome.error # "JSONDecodeError"

\* The raw attribute list of a wasm event holds exactly one entry of the key.
HasOne(attributes, key) ==
  Cardinality({i \in 1..Len(attributes) : attributes[i][1] = key}) = 1

\* The value of the single entry of the key.
ValueOf(attributes, key) ==
  attributes[CHOOSE i \in 1..Len(attributes) : attributes[i][1] = key][2]

\* Every wasm event fetched has a single action and a single from attribute.
AllSingle ==
  \A i \in 1..Len(WasmEvents(res)) :
    /\ HasOne(WasmEvents(res)[i].attributes, "action")
    /\ HasOne(WasmEvents(res)[i].attributes, "from")

KindRequested(e) ==
  \E k \in 1..Len(action_type.vals) :
    action_type.vals[k] = ValueOf(e.attributes, "action")

WalletMatches(e) ==
  user_wallet_address = None \/ user_wallet_address = ValueOf(e.attributes, "from")

TxnHashes(evs) == [i \in 1..Len(evs) |-> evs[i].txn_hash]

\* C10 as stated: an event is kept exactly when the action filter is absent
\* or contains its action, and the wallet filter is absent or equals its
\* from address.
C10_FilterConjunction_AsStated ==
  (FilterDone /\ AllSingle) =>
    TxnHashes(filtered_data) =
      [i \in 1..Len(SelectSeq(WasmEvents(res), LAMBDA e :
          /\ action_type.kind = "none" \/ KindRequested(e)
          /\ WalletMatches(e))) |->
        SelectSeq(WasmEvents(res), LAMBDA e :
          /\ action_type.kind = "none" \/ KindRequested(e)
          /\ WalletMatches(e))[i].txhash]

\* C10, amended: an event is kept exactly when the action filter is absent,
\* is an empty list, or contains its action, and the wallet filter is absent
\* or equals its from address.
C10_FilterConjunction ==
  (FilterDone /\ AllSingle) =>
    TxnHashes(filtered_data) =
      [i \in 1..Len(SelectSeq(WasmEvents(res), LAMBDA e :
          /\ \/ action_type.kind = "none"
             \/ action_type.vals = <<>>
             \/ KindRequested(e)
          /\ WalletMatches(e))) |->
        SelectSeq(WasmEvents(res), LAMBDA e :
          /\ \/ action_type.kind = "none"
             \/ action_type.vals = <<>>
             \/ KindRequested(e)
          /\ WalletMatches(e))[i].txhash]

\* Both filters given; one event fails the action filter alone, another the
\* wallet filter alone, and neither is kept.
C10_Witness ==
  /\ FilterDone
  /\ AllSingle
  /\ action_type.vals # <<>>
  /\ user_wallet_address # None
  /\ \E i \in 1..Len(WasmEvents(res)) :
       /\ ~KindRequested(WasmEvents(res)[i])
       /\ WalletMatches(WasmEvents(res)[i])
  /\ \E i \in 1..Len(WasmEvents(res)) :
       /\ KindRequested(WasmEvents(res)[i])
       /\ ~WalletMatches(WasmEvents(res)[i])
  /\ filtered_data = <<>>

\* The values the attribute list gives for a key, and whether it gives two.
ValuesOf(attributes, key) ==
  {attributes[i][2] : i \in {j \in 1..Len(attributes) : attributes[j][1] = key}}

HasTwo(attributes, key) ==
  Cardinality({i \in 1..Len(attributes) : attributes[i][1] = key}) = 2

\* _filter_events has returned from a response that holds one wasm event.
FilteredOne ==
  /\ pc = "idle"
  /\ outcome.status = "returned"
  /\ Len(WasmEvents(res)) = 1

\* C11: when the attribute list of a wasm event carries the filtered key
\* twice, the event passes the predicate if either occurrence matches: with
\* two action entries and an action filter alone it is kept exactly when a
\* requested kind is the first or the second value, and with two from
\* entries and a wallet filter alone exactly when the wallet is either one.
C11_EitherOccurrence ==
  FilteredOne =>
    LET attributes == WasmEvents(res)[1].attributes
    IN /\ ( /\ HasTwo(attributes, "action")
            /\ action_type.vals # <<>>
            /\ user_wallet_address = None )
          => ( filtered_data # <<>> <=>
                 \E k \in 1..Len(action_type.vals) :
                   action_type.vals[k] \in ValuesOf(attributes, "action") )
       /\ ( /\ HasTwo(attributes, "from")
            /\ user_wallet_address # None
            /\ action_type.vals = <<>> )
          => ( filtered_data # <<>> <=>
                 user_wallet_address \in ValuesOf(attributes, "from") )

\* The entries of a key in the order the attribute list gives them.
Occurrences(attributes, key) == SelectSeq(attributes, LAMBDA a : a[1] = key)

\* _filter_events has scanned the one wasm event of the response.
ScannedOne ==
  /\ pc = "idle"
  /\ outcome.status # "none"
  /\ Len(WasmEvents(res)) = 1

\* C12: when a wasm event carries two _contract_address entries, the bag
\* holds the first as the cw20 contract address and the second as the escrow
\* contract address, whatever other attributes precede or separate them.
C12_PositionalContracts ==
  ScannedOne =>
    LET cs == Occurrences(WasmEvents(res)[1].attributes, "_contract_address")
    IN Len(cs) = 2 =>
         /\ Get(result, "cw20_contract_address") = cs[1][2]
         /\ Get(result, "escrow_contract_address") = cs[2][2]

\* C13: the first occurrence of a key is kept under the unsuffixed key and
\* the second under the key followed by 1, so that two action (from) entries
\* give action (from) with the first value and action1 (from1) with the
\* second.
C13_DuplicateSuffix ==
  ScannedOne =>
    \A key \in {"action", "from"} :
      LET os == Occurrences(WasmEvents(res)[1].attributes, key)
      IN /\ Len(os) >= 1 => Get(result, key) = os[1][2]
         /\ Len(os) = 2 => Get(result, key \o "1") = os[2][2]

\* p is the longest prefix of cs made of ASCII letters and slashes, and it
\* is not empty.
IsLeadingPair(p, cs) ==
  /\ Len(p) >= 1
  /\ Len(p) <= Len(cs)
  /\ p = SubSeq(cs, 1, Len(p))
  /\ \A i \in 1..Len(p) : p[i] \in {"A", "B", "C", "x", "y", "/"}
  /\ Len(p) = Len(cs) \/ cs[Len(p) + 1] \notin {"A", "B", "C", "x", "y", "/"}

\* _filter_events has decoded, or failed to decode, the one wasm event of an
\* unfiltered response, which carries one id.
DecodedOne ==
  /\ ScannedOne
  /\ action_type.kind = "none"
  /\ user_wallet_address = None
  /\ HasOne(WasmEvents(res)[1].attributes, "id")

\* C14: for every id over the alphabet that begins with a letter or a slash,
\* the trade pair of the decoded event is the longest leading run of letters
\* and slashes of the id; for every id that begins with another character,
\* and for the empty id, decoding fails: extract_trade_pair raises
\* AttributeError and no event comes back.
C14_TradePair ==
  DecodedOne =>
    LET cs == Chars(ValueOf(WasmEvents(res)[1].attributes, "id"))
    IN IF cs # <<>> /\ cs[1] \in {"A", "B", "C", "x", "y", "/"}
       THEN /\ outcome.status = "returned"
            /\ Len(filtered_data) = 1
            /\ IsLeadingPair(filtered_data[1].trade_pair, cs)
       ELSE /\ outcome = Raised("AttributeError")
            /\ filtered_data = <<>>

\* An id of three characters whose trade pair is its first two, a letter and
\* a slash, has been decoded.
C14_Witness ==
  /\ DecodedOne
  /\ Len(Chars(ValueOf(WasmEvents(res)[1].attributes, "id"))) = 3
  /\ Len(filtered_data) = 1
  /\ filtered_data[1].trade_pair = <<"A", "/">>

\* How many events of a list carry a hash.
Copies(evs, h) == Cardinality({i \in 1..Len(evs) : evs[i].txn_hash = h})

\* C15: duplicates within a pass are not suppressed.  The hash of an event
\* is checked against the set loaded when the pass began only, so every copy
\* of a hash outside that set is selected, however many events the pass
\* decoded with it; once a dedup pass has returned them, the hash is in the
\* retriever's set and in the store, which suppresses all of them together
\* in later passes.
C15_IntraPassDuplicates ==
  /\ FilterDone =>
       \A h \in Hashes(filtered_data) :
         Copies(events_to_send, h) =
           IF h \in loaded THEN 0 ELSE Copies(filtered_data, h)
  /\ (HasReturned /\ discard_processed_events) =>
       /\ Hashes(outcome.events) \subseteq processed_events
       /\ file.kind = "ok"
       /\ Hashes(outcome.events) \subseteq file.hashes

\* A dedup pass has returned two events of the same hash.
C15_Witness ==
  /\ HasReturned
  /\ discard_processed_events
  /\ Len(outcome.events) = 2
  /\ outcome.events[1].txn_hash = outcome.events[2].txn_hash

\* C16: the persisted set only grows.  After a dedup pass that returned, the
\* file holds exactly the set the pass held after its load step united with
\* the hashes of the events it returned, so it holds every hash the file
\* held when the pass began; after a pass without dedup that returned, the
\* file is as it was when the pass began.
C16_StoreOnlyGrows ==
  /\ (HasReturned /\ discard_processed_events) =>
       /\ file = JsonArray(loaded \cup Hashes(outcome.events))
       /\ fileAtLoad.kind = "ok" => fileAtLoad.hashes \subseteq file.hashes
  /\ (HasReturned /\ ~discard_processed_events) => file = fileAtLoad

\* A dedup pass that began with a non-empty file has returned an event and
\* the file holds the old hashes and the new one.
C16_Witness ==
  /\ HasReturned
  /\ discard_processed_events
  /\ fileAtLoad.kind = "ok"
  /\ fileAtLoad.hashes # {}
  /\ outcome.events # <<>>
  /\ file.hashes # fileAtLoad.hashes

\* C17: the store is persisted atomically.  Whenever no call is running,
\* also after the process stopped in the middle of a save, the file is
\* absent or holds a complete array (the previous set or the new one), never
\* an empty or partial content that a later load cannot read.
C17_AtomicSave == pc = "idle" => file.kind \in {"absent", "ok"}

\* Neither retriever is in a call, and the file lacks a hash of an event
\* that a call of one of them returned.
LostUpdate ==
  /\ pc = "idle"
  /\ peer.pc = "idle"
  /\ file.kind = "ok"
  /\ (delivered \cup peer.delivered) \ file.hashes # {}

\* C18: unserialised passes are unsafe.  When the calls of the two
\* retrievers take turns, the file holds, whenever it is readable, every
\* hash a call of either has returned, and no call selects an event whose
\* hash a call of either has returned; the state in which a returned hash
\* is missing from the file is reached only when the calls interleave.
C18_SerialisedSafe ==
  peer.serial =>
    /\ file.kind = "ok" => (delivered \cup peer.delivered) \subseteq file.hashes
    /\ file.kind = "absent" => delivered \cup peer.delivered = {}
    /\ pc \in {"open", "dump"} =>
         Hashes(events_to_send) \cap (delivered \cup peer.delivered) = {}
    /\ peer.pc \in {"open", "dump"} =>
         Hashes(peer.events_to_send) \cap (delivered \cup peer.delivered) = {}

\* The calls interleaved, both have ended, and the later save has dropped a
\* hash that the other call returned.
C18_Witness == ~peer.serial /\ LostUpdate

\* A step of the loop whose response carried no records although the
\* records fetched so far are fewer than the total it reports.
EmptyAnswerStep ==
  /\ pc = "query"
  /\ Len(calls') = Len(calls) + 1
  /\ calls'[Len(calls')].n = 0
  /\ offset < total'

\* C19: the query loop ends (it breaks or the call raises) whenever the node
\* goes on to serve records while fewer than its total are fetched; and a
\* response without records below the total changes nothing: the loop stays
\* in the loop with the same offset and the same records, so its next
\* request is the same one, without a bound on the repetitions.
C19_PaginationProgress ==
  /\ (pc = "query") ~> (pc # "query")
  /\ [][EmptyAnswerStep => (pc' = "query" /\ offset' = offset /\ res' = res)]_vars

\* The loop has asked twice at the same offset, got no records both times,
\* and is still asking.
C19_Witness ==
  /\ pc = "query"
  /\ offset < total
  /\ Len(calls) >= 2
  /\ calls[Len(calls)].n = 0
  /\ calls[Len(calls) - 1].n = 0
  /\ calls[Len(calls)].offset = calls[Len(calls) - 1].offset
  /\ calls[Len(calls)].offset = offset

\* C20: no event is marked processed without being delivered.  A call that
\* ended with an exception returned no event, so after it the set the
\* retriever holds has no hash beyond those it held after the call's load
\* step, and the file is as it was when the call began.
C20_MarkedOnlyIfDelivered ==
  (pc = "idle" /\ outcome.status = "raised") =>
    /\ processed_events \subseteq loaded
    /\ file = fileAtLoad

====
